---- MODULE Spec2Model ----
(***************************************************************************)
(* A model of bundler.js: the source loader, createAsset, createGraph,     *)
(* bundle, the main program, and the loader runtime that bundle emits.     *)
(*                                                                         *)
(* Paths and import specifiers are sequences of their "/"-separated        *)
(* segments: "./lib/../a" is <<".", "lib", "..", "a">>.                    *)
(***************************************************************************)
EXTENDS Integers, Sequences, FiniteSets, TLC

\* ------------------------------------------------------------------ bounds
\* The queue of one createGraph call is cut off at MaxAssets Assets (a build
\* over files that import each other grows it without end).
MaxAssets == 8
\* SeqSpec runs createGraph at most MaxBuilds times in one process.
MaxBuilds == 2

\* ------------------------------------------------------------ path module
Front(s) == SubSeq(s, 1, Len(s) - 1)

Last(s) == s[Len(s)]

\* path.normalize's segment walk: "." is dropped, ".." removes the segment
\* before it unless there is none (or it is itself ".."), then it is kept.
RECURSIVE NormalizeFrom(_, _)
NormalizeFrom(segs, acc) ==
    IF segs = <<>> THEN acc
    ELSE LET s == Head(segs) IN
         IF s = "." THEN NormalizeFrom(Tail(segs), acc)
         ELSE IF s = ".."
              THEN IF acc # <<>> /\ Last(acc) # ".."
                   THEN NormalizeFrom(Tail(segs), Front(acc))
                   ELSE NormalizeFrom(Tail(segs), Append(acc, s))
              ELSE NormalizeFrom(Tail(segs), Append(acc, s))

\* path.join(dirname, relativePath): the two joined and normalized; an empty
\* result is ".".
pathJoin(dir, rel) ==
    LET n == NormalizeFrom(dir \o rel, <<>>) IN
    IF n = <<>> THEN <<".">> ELSE n

\* path.dirname: everything before the last segment, "." when there is none.
pathDirname(p) == IF Len(p) <= 1 THEN <<".">> ELSE Front(p)

\* path.parse(p).base
pathBase(p) == Last(p)

\* ------------------------------------------------------------- specifiers
sA == <<".", "a">>

sB == <<".", "b">>

sLibUpA == <<".", "lib", "..", "a">>

sLibC == <<".", "lib", "c">>

sUpA == <<"..", "a">>

sZZ == <<".", "zz">>

sEtcD == <<".", "etc", "d">>

sProto == <<"__proto__">>

sEntry == <<".", "entry.js">>

sNope == <<".", "nope">>

\* --------------------------------------------------------------- the disk
\* A file's content, as far as the bundler looks at it: whether babylon
\* parses it, its import declarations in source order, the specifiers of the
\* require(...) calls written by hand in its body, in order, and whether
\* babel transforms it. src names the file the text was read from.
Content(src, syntaxOk, imports, requires, transformOk) ==
    [null |-> FALSE, src |-> src, syntaxOk |-> syntaxOk, imports |-> imports,
     requires |-> requires, transformOk |-> transformOk]

\* What readFileGuessExtension returns when it catches an error.
Null ==
    [null |-> TRUE, src |-> <<>>, syntaxOk |-> FALSE, imports |-> <<>>,
     requires |-> <<>>, transformOk |-> FALSE]

Plain(src, imports, requires) == Content(src, TRUE, imports, requires, TRUE)

EntryFile == <<".", "entry.js">>

AFile == <<".", "a.js">>

BFile == <<".", "b.js">>

ProtoFile == <<".", "__proto__.js">>

LibAFile == <<"lib", "a.js">>

LibCFile == <<"lib", "c.js">>

EtcDFile == <<"etc", "d.js">>

\* fs.readdirSync: the directories of the disk and their listings, in listing
\* order ("etc" and "lib" are subdirectories of ".").
Listing ==
    [d \in {<<".">>, <<"etc">>, <<"lib">>} |->
        IF d = <<".">>
        THEN <<"__proto__.js", "a.js", "b.js", "entry.js", "etc", "lib">>
        ELSE IF d = <<"etc">> THEN <<"d.js">>
        ELSE <<"a.js", "c.js">>]

\* The texts each file may hold; a disk takes one of them for each file.
EntryChoices ==
    { Plain(EntryFile, <<>>, <<>>),
      Plain(EntryFile, <<sA>>, <<>>),
      Plain(EntryFile, <<sA>>, <<sA>>),
      Plain(EntryFile, <<sA>>, <<sNope>>),
      Plain(EntryFile, <<sA, sB>>, <<>>),
      Plain(EntryFile, <<sA, sLibUpA>>, <<>>),
      Plain(EntryFile, <<sA, sA>>, <<>>),
      Plain(EntryFile, <<sLibC, sA>>, <<>>),
      Plain(EntryFile, <<sLibC, sEtcD>>, <<>>),
      Plain(EntryFile, <<sZZ>>, <<>>),
      Plain(EntryFile, <<sA, sZZ>>, <<>>),
      Plain(EntryFile, <<sProto>>, <<>>),
      Plain(EntryFile, <<sProto, sProto>>, <<>>),
      Plain(EntryFile, <<sEntry>>, <<>>) }

AChoices ==
    { Plain(AFile, <<>>, <<>>),
      Plain(AFile, <<sB>>, <<>>),
      Plain(AFile, <<sB>>, <<sB, sNope>>),
      Plain(AFile, <<sLibC>>, <<>>),
      Content(AFile, FALSE, <<>>, <<>>, TRUE),
      Content(AFile, TRUE, <<sB>>, <<>>, FALSE) }

BChoices ==
    { Plain(BFile, <<>>, <<>>),
      Plain(BFile, <<sA>>, <<>>) }

LibCChoices ==
    { Plain(LibCFile, <<>>, <<>>),
      Plain(LibCFile, <<sUpA>>, <<>>),
      Plain(LibCFile, <<sA>>, <<>>) }

Files == {EntryFile, AFile, BFile, ProtoFile, LibAFile, LibCFile, EtcDFile}

Disks ==
    { [f \in Files |->
          IF f = EntryFile THEN e
          ELSE IF f = AFile THEN a
          ELSE IF f = BFile THEN b
          ELSE IF f = LibCFile THEN c
          ELSE IF f = EtcDFile THEN Plain(f, <<sUpA>>, <<>>)
          ELSE Plain(f, <<>>, <<>>)] :
      e \in EntryChoices, a \in AChoices, b \in BChoices, c \in LibCChoices }

\* String.prototype.indexOf(name) === 0 over the names of the disk: the
\* prefixes of each directory entry.
Prefixes(x) ==
    IF x = "a.js" THEN {"", "a", "a.", "a.j", "a.js"}
    ELSE IF x = "b.js" THEN {"", "b", "b.", "b.j", "b.js"}
    ELSE IF x = "c.js" THEN {"", "c", "c.", "c.j", "c.js"}
    ELSE IF x = "d.js" THEN {"", "d", "d.", "d.j", "d.js"}
    ELSE IF x = "etc" THEN {"", "e", "et", "etc"}
    ELSE IF x = "lib" THEN {"", "l", "li", "lib"}
    ELSE IF x = "entry.js"
         THEN {"", "e", "en", "ent", "entr", "entry", "entry.", "entry.j",
               "entry.js"}
    ELSE IF x = "__proto__.js"
         THEN {"", "_", "__", "__p", "__pr", "__pro", "__prot", "__proto",
               "__proto_", "__proto__", "__proto__.", "__proto__.j",
               "__proto__.js"}
    ELSE {""}

VARIABLES
    disk,      \* the files on disk (fixed for a run)
    ID,        \* the process-wide id counter
    pc,        \* where the main program stands
    queue,     \* createGraph's queue
    qi,        \* position of the for..of loop in queue
    di,        \* position of the forEach in the current Asset's dependencies
    graph,     \* what createGraph returned
    result,    \* what bundle returned
    stdout,    \* what console.log wrote
    err,       \* the exception that ended the process
    builds,    \* createGraph calls made in this process, the current one included
    rt         \* the state of the host that executes the emitted bundle

vars == <<disk, ID, pc, queue, qi, di, graph, result, stdout, err, builds, rt>>

\* --------------------------------------------------------- Source Loader
\* Array.prototype.find: the first listing entry that starts with name, or
\* "undefined".
RECURSIVE find(_, _)
find(files, name) ==
    IF files = <<>> THEN "undefined"
    ELSE IF name \in Prefixes(Head(files)) THEN Head(files)
    ELSE find(Tail(files), name)

\* fs.readFileSync(dir + "/" + found) under the try/catch: the text of the
\* file, null when there is no such file (or it is a directory).
readFileSync(d, p) == IF p \in DOMAIN d THEN d[p] ELSE Null

readFileGuessExtension(d, pathWithNoExtension) ==
    LET dir == pathDirname(pathWithNoExtension)
        name == pathBase(pathWithNoExtension)
    IN  IF dir \notin DOMAIN Listing THEN Null
        ELSE readFileSync(d, dir \o <<find(Listing[dir], name)>>)

\* --------------------------------------------------- objects used as maps
\* asset.mapping is a plain object: its own properties in insertion order,
\* as [k, v] pairs with distinct keys.
ownKeys(obj) == {obj[i].k : i \in DOMAIN obj}

\* obj[key] = val. Assigning a number to "__proto__" runs the setter
\* inherited from Object.prototype, which ignores a value that is no object:
\* no own property appears. Any other key is set in place or appended.
setProperty(obj, key, val) ==
    IF key = sProto THEN obj
    ELSE IF key \in ownKeys(obj)
         THEN [i \in DOMAIN obj |->
                  IF obj[i].k = key THEN [k |-> key, v |-> val] ELSE obj[i]]
         ELSE Append(obj, [k |-> key, v |-> val])

\* JavaScript values the runtime passes to require.
Num(n) == [t |-> "number", v |-> n]

Undefined == [t |-> "undefined", v |-> 0]

ObjectPrototype == [t |-> "object", v |-> 0]

\* obj[key]: the own property; else what Object.prototype gives
\* ("__proto__" reads the prototype itself); else undefined.
getProperty(obj, key) ==
    IF key \in ownKeys(obj)
    THEN Num(obj[CHOOSE i \in DOMAIN obj : obj[i].k = key].v)
    ELSE IF key = sProto THEN ObjectPrototype
    ELSE Undefined

\* ---------------------------------------------------------- Asset Builder
NoErr == [at |-> "", kind |-> "", filename |-> <<>>]

NoAsset ==
    [id |-> 0, filename |-> <<>>, dependencies |-> <<>>,
     code |-> [src |-> <<>>, calls |-> <<>>], mapped |-> FALSE,
     mapping |-> <<>>]

\* babylon.parse(content, {sourceType: "module"}): throws a TypeError on
\* null (it reads content.length), a SyntaxError on malformed text.
parse(content) ==
    IF content.null THEN [ok |-> FALSE, kind |-> "TypeError"]
    ELSE IF ~content.syntaxOk THEN [ok |-> FALSE, kind |-> "SyntaxError"]
    ELSE [ok |-> TRUE, kind |-> ""]

\* s without its repeated elements, first occurrences kept.
RECURSIVE Unique(_, _)
Unique(s, acc) ==
    IF s = <<>> THEN acc
    ELSE IF \E i \in DOMAIN acc : acc[i] = Head(s)
         THEN Unique(Tail(s), acc)
         ELSE Unique(Tail(s), Append(acc, Head(s)))

\* A traversal that skips a source it has pushed before.
ImportDeclarationsOnce(content) == Unique(content.imports, <<>>)

\* A traversal that pushes the source of every import twice (once for the
\* declaration, once more for its specifier).
ImportDeclarationsTwice(content) ==
    [i \in 1..(2 * Len(content.imports)) |-> content.imports[(i + 1) \div 2]]

\* traverse(ast, {ImportDeclaration}): every import's source, in order,
\* duplicates kept.
ImportDeclarations(content) == content.imports

\* babel.transformFromAstSync with preset-env: the module body. It calls
\* require once for each imported source (hoisted, in order of first
\* occurrence) and keeps the require calls written by hand.
transformFromAstSync(content) ==
    IF ~content.transformOk THEN [ok |-> FALSE, code |-> NoAsset.code]
    ELSE [ok |-> TRUE,
          code |-> [src |-> content.src,
                    calls |-> Unique(content.imports, <<>>) \o content.requires]]

\* const id = ID, the increment forgotten.
AllocIdStuck(n) == [id |-> n, next |-> n]

\* const id = ID++ with a pre-increment.
AllocIdPre(n) == [id |-> n + 1, next |-> n + 1]

\* const id = ID++
AllocId(n) == [id |-> n, next |-> n + 1]

\* An Asset that is returned with an empty mapping already on it.
newAssetWithMapping(id, filename, dependencies, code) ==
    [id |-> id, filename |-> filename, dependencies |-> dependencies,
     code |-> code, mapped |-> TRUE, mapping |-> <<>>]

\* return {id, filename, dependencies, code}: no mapping yet.
newAsset(id, filename, dependencies, code) ==
    [id |-> id, filename |-> filename, dependencies |-> dependencies,
     code |-> code, mapped |-> FALSE, mapping |-> <<>>]

\* createAsset(filename) with the counter at n: the Asset, or the exception
\* thrown, and the counter afterwards. The id is taken before the transform
\* runs, so a failing transform has used one up.
createAsset(d, n, filename) ==
    LET content == readFileGuessExtension(d, filename)
        ast == parse(content)
    IN  IF ~ast.ok
        THEN [threw |-> TRUE, ID |-> n, asset |-> NoAsset,
              err |-> [at |-> "parse", kind |-> ast.kind, filename |-> filename]]
        ELSE LET a == AllocId(n)
                 t == transformFromAstSync(content)
             IN  IF ~t.ok
                 THEN [threw |-> TRUE, ID |-> a.next, asset |-> NoAsset,
                       err |-> [at |-> "transform", kind |-> "Error",
                                filename |-> filename]]
                 ELSE [threw |-> FALSE, ID |-> a.next, err |-> NoErr,
                       asset |-> newAsset(a.id, filename,
                                          ImportDeclarations(content), t.code)]

\* ---------------------------------------------------------- Graph Builder
Entry == <<".", "entry.js">>

\* Nothing emitted yet.
NoText == [modules |-> <<>>, start |-> -1]

\* The host before it is given the bundle.
RtOff ==
    [status |-> "off", modules |-> <<>>, stack |-> <<>>, calls |-> <<>>,
     execs |-> <<>>, nobj |-> 0, returned |-> <<>>,
     last |-> [in |-> -1, key |-> <<>>, arg |-> Undefined]]

Init ==
    /\ disk \in Disks
    /\ ID = 0
    /\ pc = "start"
    /\ queue = <<>>
    /\ qi = 0
    /\ di = 0
    /\ graph = <<>>
    /\ result = NoText
    /\ stdout = NoText
    /\ err = NoErr
    /\ builds = 1
    /\ rt = RtOff

\* An exception nobody catches, thrown with the counter at n, is caught and
\* the build goes on.
Swallow(e, n) ==
    /\ err' = e
    /\ ID' = n
    /\ IF pc = "start"
       THEN pc' = "loop" /\ qi' = 1 /\ di' = di
       ELSE pc' = pc /\ qi' = qi /\ di' = di + 1
    /\ UNCHANGED <<disk, queue, graph, result, stdout, builds, rt>>

\* An exception nobody catches, thrown with the counter at n: the process
\* ends there.
Throw(e, n) ==
    /\ err' = e
    /\ ID' = n
    /\ pc' = "aborted"
    /\ UNCHANGED <<disk, queue, qi, di, graph, result, stdout, builds, rt>>

\* queue.push(child), skipped when the file is already in the queue.
pushDedup(q, child) ==
    IF \E k \in DOMAIN q : q[k].filename = child.filename THEN q
    ELSE Append(q, child)

\* queue.unshift(child): the child goes to the front.
unshift(q, child) == <<child>> \o q

\* queue.push(child)
push(q, child) == Append(q, child)

\* const mainAsset = createAsset(entry); const queue = [mainAsset];
CreateMain ==
    /\ pc = "start"
    /\ LET r == createAsset(disk, ID, Entry) IN
       IF r.threw THEN Throw(r.err, r.ID)
       ELSE /\ ID' = r.ID
            /\ queue' = <<r.asset>>
            /\ qi' = 1
            /\ pc' = "loop"
            /\ UNCHANGED <<disk, di, graph, result, stdout, err, builds, rt>>

\* for (const asset of queue): the next Asset, if the queue has one, gets
\* an empty mapping.
ForOfNext ==
    /\ pc = "loop"
    /\ qi <= Len(queue)
    /\ queue' = [queue EXCEPT ![qi].mapped = TRUE, ![qi].mapping = <<>>]
    /\ di' = 1
    /\ pc' = "deps"
    /\ UNCHANGED <<disk, ID, qi, graph, result, stdout, err, builds, rt>>

\* The directory of the entry file, whatever Asset is being processed.
entryDirname(asset) == pathDirname(Entry)

\* const dirname = path.dirname(asset.filename);
importerDirname(asset) == pathDirname(asset.filename)

\* The forEach callback with one mapping object shared by every Asset
\* processed so far: the new key shows in all of them.
ForEachDependencyShared ==
    /\ pc = "deps"
    /\ di <= Len(queue[qi].dependencies)
    /\ Len(queue) < MaxAssets
    /\ LET asset == queue[qi]
           relativePath == asset.dependencies[di]
           absolutePath == pathJoin(pathDirname(asset.filename), relativePath)
           r == createAsset(disk, ID, absolutePath)
       IN  IF r.threw THEN Throw(r.err, r.ID)
           ELSE /\ ID' = r.ID
                /\ queue' = Append(
                       [k \in DOMAIN queue |->
                           IF queue[k].mapped
                           THEN [queue[k] EXCEPT !.mapping =
                                    setProperty(@, relativePath, r.asset.id)]
                           ELSE queue[k]],
                       r.asset)
                /\ di' = di + 1
                /\ UNCHANGED <<disk, pc, qi, graph, result, stdout, err,
                               builds, rt>>

\* One call of the forEach callback: the child is built, recorded in the
\* mapping under the specifier and pushed.
ForEachDependency ==
    /\ pc = "deps"
    /\ di <= Len(queue[qi].dependencies)
    /\ Len(queue) < MaxAssets
    /\ LET asset == queue[qi]
           dirname == importerDirname(asset)
           relativePath == asset.dependencies[di]
           absolutePath == pathJoin(dirname, relativePath)
           r == createAsset(disk, ID, absolutePath)
       IN  IF r.threw THEN Throw(r.err, r.ID)
           ELSE /\ ID' = r.ID
                /\ queue' = push(
                       [queue EXCEPT ![qi].mapping =
                           setProperty(@, relativePath, r.asset.id)],
                       r.asset)
                /\ di' = di + 1
                /\ UNCHANGED <<disk, pc, qi, graph, result, stdout, err,
                               builds, rt>>

\* The forEach is through: back to the for..of.
ForEachEnd ==
    /\ pc = "deps"
    /\ di > Len(queue[qi].dependencies)
    /\ qi' = qi + 1
    /\ pc' = "loop"
    /\ UNCHANGED <<disk, ID, queue, di, graph, result, stdout, err, builds, rt>>

\* The for..of is through: return queue. const graph = createGraph(...)
ReturnQueue ==
    /\ pc = "loop"
    /\ qi > Len(queue)
    /\ graph' = queue
    /\ pc' = "built"
    /\ UNCHANGED <<disk, ID, queue, qi, di, result, stdout, err, builds, rt>>

\* --------------------------------------------------------- Bundle Emitter
\* JSON.stringify(module.mapping): the own properties as key/value pairs, in
\* insertion order.
JSONstringify(obj) == [i \in DOMAIN obj |-> <<obj[i].k, obj[i].v>>]

\* The text with a runtime that ends in require(1).
bundleFromOne(g) ==
    [modules |-> [k \in DOMAIN g |->
                     [id |-> g[k].id, code |-> g[k].code,
                      mapping |-> JSONstringify(g[k].mapping)]],
     start |-> 1]

\* The text bundle returns: one registry entry per Asset, in graph order,
\* and the fixed runtime, which ends in require(0).
bundle(g) ==
    [modules |-> [k \in DOMAIN g |->
                     [id |-> g[k].id, code |-> g[k].code,
                      mapping |-> JSONstringify(g[k].mapping)]],
     start |-> 0]

\* bundle that takes the Assets out of the graph as it emits them.
BundleConsuming ==
    /\ pc = "built"
    /\ result' = bundle(graph)
    /\ graph' = <<>>
    /\ pc' = "bundled"
    /\ UNCHANGED <<disk, ID, queue, qi, di, stdout, err, builds, rt>>

\* const result = bundle(graph);
Bundle ==
    /\ pc = "built"
    /\ result' = bundle(graph)
    /\ pc' = "bundled"
    /\ UNCHANGED <<disk, ID, queue, qi, di, graph, stdout, err, builds, rt>>

\* console.log(result);
ConsoleLog ==
    /\ pc = "bundled"
    /\ stdout' = result
    /\ pc' = "printed"
    /\ UNCHANGED <<disk, ID, queue, qi, di, graph, result, err, builds, rt>>

\* ------------------------------------------------- the emitted runtime
\* An object literal {"k": v, ...} of the emitted text, evaluated.
RECURSIVE objectLiteral(_, _)
objectLiteral(pairs, acc) ==
    IF pairs = <<>> THEN acc
    ELSE objectLiteral(Tail(pairs),
                       setProperty(acc, Head(pairs)[1], Head(pairs)[2]))

\* The registry ({id: [fn, mapping], ...}) the emitted text passes to the
\* runtime; of two entries with one id the later stands.
Registry(text) ==
    LET ids == {text.modules[k].id : k \in DOMAIN text.modules} IN
    [i \in ids |->
        LET k == CHOOSE k \in DOMAIN text.modules :
                     /\ text.modules[k].id = i
                     /\ \A k2 \in DOMAIN text.modules :
                            text.modules[k2].id = i => k2 <= k
        IN  [fn |-> text.modules[k].code,
             mapping |-> objectLiteral(text.modules[k].mapping, <<>>)]]

\* const module = {exports: {}}; fn(localRequire, module, module.exports):
\* a new exports object, and the body of module id starts.
invoke(r, id) ==
    [r EXCEPT !.nobj = @ + 1,
              !.execs[id] = @ + 1,
              !.stack = Append(@, [id |-> id, next |-> 1, exports |-> r.nobj + 1])]

\* const [fn, mapping] = modules[id] when modules[id] is undefined: a
\* TypeError, which nothing catches.
typeError(r) == [r EXCEPT !.status = "error", !.stack = <<>>]

\* require(id) that hands back the exports of an earlier call of the module.
requireCached(r, idv) ==
    IF idv.t = "number" /\ idv.v \in DOMAIN r.modules
    THEN IF r.execs[idv.v] > 0
         THEN [r EXCEPT !.calls[idv.v] = @ + 1,
                        !.returned = Append(@, IF r.returned = <<>> THEN 0
                                               ELSE r.returned[1])]
         ELSE invoke([r EXCEPT !.calls[idv.v] = @ + 1], idv.v)
    ELSE typeError(r)

\* require(id) that returns empty exports for an id the registry lacks.
requireLenient(r, idv) ==
    IF idv.t = "number" /\ idv.v \in DOMAIN r.modules
    THEN invoke([r EXCEPT !.calls[idv.v] = @ + 1], idv.v)
    ELSE [r EXCEPT !.nobj = @ + 1, !.returned = Append(@, r.nobj + 1)]

\* function require(id)
require(r, idv) ==
    IF idv.t = "number" /\ idv.v \in DOMAIN r.modules
    THEN invoke([r EXCEPT !.calls[idv.v] = @ + 1], idv.v)
    ELSE typeError(r)

\* localRequire that looks the specifier up in the entry module's mapping.
localRequireGlobal(r, m, relativePath) ==
    LET arg == getProperty(r.modules[0].mapping, relativePath) IN
    require([r EXCEPT !.last = [in |-> m, key |-> relativePath, arg |-> arg]],
            arg)

\* function localRequire(relativePath) of the require call for module m:
\* require(mapping[relativePath]) with m's mapping.
localRequire(r, m, relativePath) ==
    LET arg == getProperty(r.modules[m].mapping, relativePath) IN
    require([r EXCEPT !.last = [in |-> m, key |-> relativePath, arg |-> arg]],
            arg)

\* The host runs the text written to stdout: the registry, then require(0).
RunBundle ==
    /\ pc = "printed"
    /\ rt.status = "off"
    /\ LET modules == Registry(stdout) IN
       rt' = require([RtOff EXCEPT !.status = "running",
                                   !.modules = modules,
                                   !.calls = [i \in DOMAIN modules |-> 0],
                                   !.execs = [i \in DOMAIN modules |-> 0]],
                     Num(stdout.start))
    /\ UNCHANGED <<disk, ID, pc, queue, qi, di, graph, result, stdout, err, builds>>

\* The running body makes its next require call.
BodyRequire ==
    /\ rt.status = "running"
    /\ rt.stack # <<>>
    /\ LET top == Last(rt.stack)
           fn == rt.modules[top.id].fn
       IN  /\ top.next <= Len(fn.calls)
           /\ rt' = localRequire(
                  [rt EXCEPT !.stack[Len(rt.stack)].next = @ + 1],
                  top.id, fn.calls[top.next])
    /\ UNCHANGED <<disk, ID, pc, queue, qi, di, graph, result, stdout, err, builds>>

\* The running body is through: return module.exports.
BodyReturn ==
    /\ rt.status = "running"
    /\ rt.stack # <<>>
    /\ LET top == Last(rt.stack)
           fn == rt.modules[top.id].fn
       IN  /\ top.next > Len(fn.calls)
           /\ rt' = [rt EXCEPT !.stack = Front(@),
                               !.returned = Append(@, top.exports),
                               !.status = IF Len(rt.stack) = 1 THEN "done" ELSE @]
    /\ UNCHANGED <<disk, ID, pc, queue, qi, di, graph, result, stdout, err, builds>>

\* ------------------------------------------------------ specifications
Next ==
    \/ CreateMain
    \/ ForOfNext
    \/ ForEachDependency
    \/ ForEachEnd
    \/ ReturnQueue
    \/ Bundle
    \/ ConsoleLog
    \/ RunBundle
    \/ BodyRequire
    \/ BodyReturn

\* The program as bundler.js runs it: one createGraph, one bundle.
Spec == Init /\ [][Next]_vars

\* The program runs to its end: every statement is synchronous.
FairSpec == Spec /\ WF_vars(Next)

\* createGraph is called again in the same process, after it returned.
CreateGraphAgain ==
    /\ pc = "built"
    /\ builds < MaxBuilds
    /\ builds' = builds + 1
    /\ pc' = "start"
    /\ queue' = <<>>
    /\ qi' = 0
    /\ di' = 0
    /\ UNCHANGED <<disk, ID, graph, result, stdout, err, rt>>

NextSeq == Next \/ CreateGraphAgain

\* Several builds, one after another, in one process.
SeqSpec == Init /\ [][NextSeq]_vars

\* ------------------------------------------------------------- claims
\* createGraph has returned to the main program.
Returned == pc \in {"built", "bundled", "printed"}

\* The build is over: createGraph returned or an exception ended it.
Finished == Returned \/ pc = "aborted"

Ids(g) == {g[k].id : k \in DOMAIN g}

Range(s) == {s[i] : i \in DOMAIN s}

\* The file a filename is loaded from (Null when the loader finds none).
Loaded(filename) == readFileGuessExtension(disk, filename)

\* The filenames the Asset built for filename lists as children: none when
\* no Asset can be built for it.
Targets(filename) ==
    LET c == Loaded(filename) IN
    IF c.null \/ ~c.syntaxOk \/ ~c.transformOk THEN <<>>
    ELSE [i \in DOMAIN c.imports |->
             pathJoin(pathDirname(filename), c.imports[i])]

\* Some chain of imports from filename comes back to a filename on it.
RECURSIVE HasCycle(_, _)
HasCycle(filename, onPath) ==
    \/ filename \in onPath
    \/ \E i \in DOMAIN Targets(filename) :
           HasCycle(Targets(filename)[i], onPath \cup {filename})

\* No file that the entry reaches imports itself, directly or through a chain.
Acyclic == ~HasCycle(Entry, {})

RECURSIVE SumSeq(_)
SumSeq(s) == IF s = <<>> THEN 0 ELSE Head(s) + SumSeq(Tail(s))

\* The number of import chains that start at filename (itself included);
\* defined when no chain from filename comes back.
RECURSIVE ChainCount(_)
ChainCount(filename) ==
    1 + SumSeq([i \in DOMAIN Targets(filename) |->
                   ChainCount(Targets(filename)[i])])

\* The filenames the entry reaches, to any depth up to n.
RECURSIVE Reach(_, _)
Reach(S, n) ==
    IF n = 0 THEN S
    ELSE Reach(S \cup UNION {Range(Targets(f)) : f \in S}, n - 1)

\* The size of the dependency graph: the filenames the entry reaches plus
\* the imports written in them.
DepGraphSize ==
    LET nodes == Reach({Entry}, MaxAssets) IN
    Cardinality(nodes)
        + Cardinality(UNION {{<<f, i>> : i \in DOMAIN Targets(f)} : f \in nodes})

\* C1: when createGraph has returned a Graph of N Assets, the ids in it are
\* exactly 0..N-1, no two Assets share an id, and the entry Asset (the first)
\* has id 0.
C1_GraphIdsDense ==
    Returned =>
        /\ Ids(graph) = 0..(Len(graph) - 1)
        /\ \A j, k \in DOMAIN graph : graph[j].id = graph[k].id => j = k
        /\ graph[1].id = 0
        /\ graph[1].filename = Entry

C1_Witness == Returned /\ Len(graph) >= 4

C3_EachBuildOwnCounter ==
    \A b \in 1..MaxBuilds :
        (builds = b /\ pc = "built") =>
            /\ Ids(graph) = 0..(Len(graph) - 1)
            /\ graph[1].id = 0

\* C4: in a completed Graph the keys of every Asset's mapping are exactly
\* the strings of its dependencies, and every mapping value is the id of an
\* Asset of the Graph.
C4_MappingKeys ==
    Returned =>
        \A k \in DOMAIN graph :
            /\ graph[k].mapped
            /\ ownKeys(graph[k].mapping) = Range(graph[k].dependencies)
            /\ \A i \in DOMAIN graph[k].mapping :
                   graph[k].mapping[i].v \in Ids(graph)

\* The places of a Graph where a specifier is written: Asset k, position i.
Occurrences(g) ==
    UNION {{<<k, i>> : i \in DOMAIN g[k].dependencies} : k \in DOMAIN g}

SpecifierAt(g, o) == g[o[1]].dependencies[o[2]]

TargetAt(g, o) == pathJoin(pathDirname(g[o[1]].filename), SpecifierAt(g, o))

\* Two places with different specifiers that resolve to one file.
SameTarget(g, o1, o2) ==
    /\ SpecifierAt(g, o1) # SpecifierAt(g, o2)
    /\ ~Loaded(TargetAt(g, o1)).null
    /\ Loaded(TargetAt(g, o1)) = Loaded(TargetAt(g, o2))

\* C5: when two different specifiers of a completed Graph, in one Asset or
\* in two, resolve to the same file, their mappings name two different ids,
\* and the Graph holds, at two different positions, an Asset for each of the
\* two ids, built for that file.
C5_NoDeduplication ==
    Returned =>
        \A o1, o2 \in Occurrences(graph) :
            SameTarget(graph, o1, o2) =>
                LET v1 == getProperty(graph[o1[1]].mapping, SpecifierAt(graph, o1))
                    v2 == getProperty(graph[o2[1]].mapping, SpecifierAt(graph, o2))
                IN  /\ v1.t = "number" /\ v2.t = "number"
                    /\ v1.v # v2.v
                    /\ \E k1, k2 \in DOMAIN graph :
                           /\ k1 # k2
                           /\ graph[k1].id = v1.v
                           /\ graph[k2].id = v2.v
                           /\ graph[k1].filename = TargetAt(graph, o1)
                           /\ graph[k2].filename = TargetAt(graph, o2)
                           /\ graph[k1].code.src = graph[k2].code.src

C5_Witness ==
    /\ Returned
    /\ \E o1, o2 \in Occurrences(graph) :
           o1[1] # o2[1] /\ SameTarget(graph, o1, o2)

\* The same, with the two specifiers in one Asset.
C5_SameAsset ==
    /\ Returned
    /\ \E o1, o2 \in Occurrences(graph) :
           o1[1] = o2[1] /\ SameTarget(graph, o1, o2)

\* C6: once createAsset has thrown, for whatever Asset and at whatever step,
\* the process has ended: createGraph has returned nothing, nothing was
\* bundled, written or run, and no step after it builds an Asset.
C6_FailureAborts ==
    /\ [](err # NoErr =>
            /\ pc = "aborted"
            /\ graph = <<>>
            /\ result = NoText
            /\ stdout = NoText
            /\ rt.status = "off")
    /\ [][err # NoErr => (ID' = ID /\ queue' = queue /\ pc' = pc)]_vars

C6_Witness == err # NoErr /\ pc = "aborted" /\ Len(queue) >= 2 /\ err.at = "transform"

\* C7: when the loader has no content for the file whose Asset failed, the
\* failure is a LoadError raised at the load step, not by the parser.
C7_LoadError ==
    (pc = "aborted" /\ Loaded(err.filename).null) =>
        err.at = "load" /\ err.kind = "LoadError"

\* The exports objects of the calls still running.
Running == {rt.stack[i].exports : i \in DOMAIN rt.stack}

\* C8: over a run of the bundle every module's body has been started as
\* often as require was called for its id, and every call got an exports
\* object of its own: no object is returned twice, none is shared by two
\* running calls, none is both returned and still running.
C8_NoCaching ==
    rt.status # "off" =>
        /\ \A id \in DOMAIN rt.modules : rt.execs[id] = rt.calls[id]
        /\ \A i, j \in DOMAIN rt.returned :
               rt.returned[i] = rt.returned[j] => i = j
        /\ \A i, j \in DOMAIN rt.stack :
               rt.stack[i].exports = rt.stack[j].exports => i = j
        /\ Running \cap Range(rt.returned) = {}
        /\ rt.status # "error" => rt.nobj = Len(rt.stack) + Len(rt.returned)

C8_Witness ==
    /\ rt.status = "done"
    /\ \E id \in DOMAIN rt.modules : rt.execs[id] >= 2

\* The running body is about to call require.
AtCall ==
    /\ rt.status = "running"
    /\ rt.stack # <<>>
    /\ Last(rt.stack).next <= Len(rt.modules[Last(rt.stack).id].fn.calls)

\* The module whose body is running, the specifier of its next call, and
\* that module's own mapping.
Caller == Last(rt.stack).id

NextKey == rt.modules[Caller].fn.calls[Last(rt.stack).next]

OwnMapping == rt.modules[Caller].mapping

\* C9: a call localRequire(s) in the body of module m passes to require what
\* m's own mapping holds under s, and when that is an id the body that
\* starts is the one of that id, on top of the caller's.
C9_OwnMappingOnly ==
    [][(AtCall /\ rt' # rt) =>
          /\ rt'.last = [in |-> Caller, key |-> NextKey,
                         arg |-> getProperty(OwnMapping, NextKey)]
          /\ NextKey \in ownKeys(OwnMapping) =>
                /\ rt'.status = "running"
                /\ Len(rt'.stack) = Len(rt.stack) + 1
                /\ Last(rt'.stack).id =
                       OwnMapping[CHOOSE i \in DOMAIN OwnMapping :
                                      OwnMapping[i].k = NextKey].v
                /\ Last(rt'.stack).next = 1]_vars

\* A module other than the entry has just called a specifier that the entry
\* module maps too, and got the module its own mapping names.
C9_Witness ==
    /\ rt.status = "running"
    /\ rt.last.in > 0
    /\ rt.last.key \in ownKeys(rt.modules[0].mapping)
    /\ rt.last.key \in ownKeys(rt.modules[rt.last.in].mapping)
    /\ getProperty(rt.modules[0].mapping, rt.last.key) # rt.last.arg
    /\ Last(rt.stack).id = rt.last.arg.v
    /\ Last(rt.stack).next = 1

\* C10: a call of a specifier that the calling module's own mapping lacks
\* ends the run with an error and starts no body; the run that fails so is
\* the run of a bundle that was built and written without an error.
C10_AbsentSpecifierFailsAtRunTime ==
    /\ [][(AtCall /\ rt' # rt /\ NextKey \notin ownKeys(OwnMapping)) =>
             /\ rt'.status = "error"
             /\ rt'.execs = rt.execs
             /\ rt'.nobj = rt.nobj
             /\ rt'.returned = rt.returned]_vars
    /\ [](rt.status = "error" =>
             /\ pc = "printed"
             /\ err = NoErr
             /\ stdout = bundle(graph)
             /\ rt.last.key \notin ownKeys(rt.modules[rt.last.in].mapping))

C10_Witness ==
    /\ rt.status = "error"
    /\ rt.last.key = sNope
    /\ rt.last.in > 0
    /\ pc = "printed"

\* The bodies started so far in the run of the bundle.
TotalExecs == SumSeq([k \in DOMAIN graph |-> rt.execs[graph[k].id]])

\* C11: in a run of the emitted bundle require(0) has been called exactly
\* once and the body of module 0 has started exactly once; no mapping of the
\* Graph names id 0; and when the entry has no imports the Graph is the one
\* Asset with id 0 and an empty mapping, and no other body ever starts.
C11_EntryRunsOnce ==
    /\ Returned =>
          /\ \A k \in DOMAIN graph : \A i \in DOMAIN graph[k].mapping :
                 graph[k].mapping[i].v # 0
          /\ graph[1].dependencies = <<>> =>
                /\ Len(graph) = 1
                /\ graph[1].id = 0
                /\ graph[1].mapping = <<>>
    /\ rt.status # "off" =>
          /\ 0 \in DOMAIN rt.modules
          /\ rt.calls[0] = 1
          /\ rt.execs[0] = 1
          /\ graph[1].dependencies = <<>> => TotalExecs = 1

C11_Witness ==
    /\ rt.status = "done"
    /\ graph[1].dependencies = <<>>
    /\ rt.execs[0] = 1

\* The position in the Graph of the Asset built for the specifier written at
\* position i of the Asset at position k: after the entry and after the
\* children of every Asset before k.
ChildPos(g, k, i) ==
    1 + SumSeq([j \in 1..(k - 1) |-> Len(g[j].dependencies)]) + i

\* C12: the Asset at position k of the queue, and of the returned Graph, has
\* id k - 1; in the returned Graph the Asset
\* built for the i-th specifier of the Asset at position k stands after the
\* children of all earlier Assets, at the i-th place among its siblings, and
\* is the one built for that specifier's target; the chain entry -> "./a" ->
\* "./b" gives three Assets with the mappings {"./a": 1} and {"./b": 2}.
C12_FifoIds ==
    /\ \A k \in DOMAIN queue : queue[k].id = k - 1
    /\ Returned =>
          /\ \A k \in DOMAIN graph : graph[k].id = k - 1
          /\ \A o \in Occurrences(graph) :
                 LET c == ChildPos(graph, o[1], o[2]) IN
                 /\ c \in DOMAIN graph
                 /\ c > o[1]
                 /\ graph[c].filename = TargetAt(graph, o)
          /\ (/\ graph[1].dependencies = <<sA>>
              /\ Len(graph) >= 2
              /\ graph[2].dependencies = <<sB>>
              /\ Loaded(<<"b">>).imports = <<>>) =>
                 /\ Len(graph) = 3
                 /\ graph[1].mapping = <<[k |-> sA, v |-> 1]>>
                 /\ graph[2].mapping = <<[k |-> sB, v |-> 2]>>
                 /\ graph[3].mapping = <<>>

C12_Witness ==
    /\ Returned
    /\ Len(graph) = 3
    /\ graph[1].mapping = <<[k |-> sA, v |-> 1]>>
    /\ graph[2].mapping = <<[k |-> sB, v |-> 2]>>

\* C13: the text bundle returned is still what bundle gives for the Graph at
\* every later point (a second call returns the same text), and the call
\* changes neither the Graph nor the queue nor the id counter.
C13_EmissionReadOnly ==
    /\ [](pc \in {"bundled", "printed"} => result = bundle(graph))
    /\ [](pc = "printed" => stdout = bundle(graph))
    /\ [][(pc = "built" /\ pc' = "bundled") =>
             (graph' = graph /\ queue' = queue /\ ID' = ID)]_vars

C13_Witness == pc = "bundled" /\ Len(graph) >= 3 /\ result = bundle(graph)

\* C14: while createGraph runs, the Assets with a mapping are exactly the
\* ones before the current one, and the current one once its processing has
\* begun; when createGraph has returned every Asset has one.
C14_MappingIffProcessed ==
    /\ pc \in {"loop", "deps"} =>
          \A k \in DOMAIN queue :
              queue[k].mapped <=> (k < qi \/ (k = qi /\ pc = "deps"))
    /\ pc \in {"loop", "deps"} =>
          \A k \in DOMAIN queue : ~queue[k].mapped => queue[k].mapping = <<>>
    /\ Returned => \A k \in DOMAIN graph : graph[k].mapped

C14_Witness ==
    /\ pc = "deps"
    /\ qi = 2
    /\ Len(queue) >= 4
    /\ queue[2].mapped
    /\ ~queue[3].mapped

\* What createAsset put on an Asset.
Built(a) == <<a.id, a.filename, a.dependencies, a.code>>

\* C15: no step of createGraph removes, replaces or reorders an Asset of the
\* queue: the old queue is the start of the new one, but for the mapping of
\* the Asset being processed; the Assets processed earlier, mapping
\* included, never change again, and the Graph returned is the queue.
C15_AppendOnly ==
    /\ [][/\ Len(queue') >= Len(queue)
          /\ \A k \in DOMAIN queue :
                 /\ Built(queue'[k]) = Built(queue[k])
                 /\ (queue[k].mapped /\ k # qi) => queue'[k] = queue[k]
                 /\ queue[k].mapped => queue'[k].mapped]_vars
    /\ [](Returned => graph = queue)

C15_Witness ==
    /\ pc = "deps"
    /\ qi = 3
    /\ Len(queue) >= 5
    /\ Len(queue[1].mapping) = 2
    /\ Len(queue[2].mapping) = 1

\* The Asset built for the specifier written at occurrence o.
ChildAt(g, o) == g[ChildPos(g, o[1], o[2])]

\* The directory of the Asset that wrote occurrence o.
DirAt(g, o) == pathDirname(g[o[1]].filename)

\* The specifier leaves the importer's directory: after "." and "name/.."
\* pairs are dropped it still starts with "..".
Climbs(spec) ==
    LET n == NormalizeFrom(spec, <<>>) IN n # <<>> /\ Head(n) = ".."

\* Every child's filename is its specifier joined onto the directory of the
\* Asset that wrote it, "." and ".." collapsed; the cases of the disk are
\* spelled out, a grandchild under "lib" or "etc" included.
ResolvedAgainstImporter ==
    \A o \in Occurrences(graph) :
        LET f == ChildAt(graph, o).filename
            d == DirAt(graph, o)
            x == SpecifierAt(graph, o)
        IN  /\ f = pathJoin(d, x)
            /\ (d = <<".">> /\ x = sA) => f = <<"a">>
            /\ (d = <<".">> /\ x = sB) => f = <<"b">>
            /\ (d = <<".">> /\ x = sLibUpA) => f = <<"a">>
            /\ (d = <<".">> /\ x = sLibC) => f = <<"lib", "c">>
            /\ (d = <<".">> /\ x = sEtcD) => f = <<"etc", "d">>
            /\ (d = <<"lib">> /\ x = sA) => f = <<"lib", "a">>
            /\ (d = <<"lib">> /\ x = sUpA) => f = <<"a">>
            /\ (d = <<"etc">> /\ x = sUpA) => f = <<"a">>
            /\ ChildAt(graph, o).code.src = Loaded(f).src
            /\ \A i \in DOMAIN f : f[i] \notin {".", ".."}

\* C16 as stated: children resolve against the importer's directory, and one
\* specifier written by Assets in two different directories always builds
\* Assets with different filenames.
C16_DifferentDirsDifferentFiles ==
    Returned =>
        /\ ResolvedAgainstImporter
        /\ \A o1, o2 \in Occurrences(graph) :
               (/\ SpecifierAt(graph, o1) = SpecifierAt(graph, o2)
                /\ DirAt(graph, o1) # DirAt(graph, o2)) =>
                   ChildAt(graph, o1).filename # ChildAt(graph, o2).filename

\* C16, amended: children resolve against the importer's directory, and one
\* specifier written by Assets in two different directories builds Assets
\* with different filenames unless the specifier climbs out of the
\* importer's directory with "..".
C16_ResolvedAgainstImporter ==
    Returned =>
        /\ ResolvedAgainstImporter
        /\ \A o1, o2 \in Occurrences(graph) :
               (/\ SpecifierAt(graph, o1) = SpecifierAt(graph, o2)
                /\ DirAt(graph, o1) # DirAt(graph, o2)
                /\ ~Climbs(SpecifierAt(graph, o1))) =>
                   ChildAt(graph, o1).filename # ChildAt(graph, o2).filename

C16_Witness ==
    /\ Returned
    /\ \E o1, o2 \in Occurrences(graph) :
           /\ SpecifierAt(graph, o1) = sA
           /\ SpecifierAt(graph, o2) = sA
           /\ o1[1] = 1
           /\ graph[o2[1]].filename = <<"lib", "c">>
           /\ ChildAt(graph, o1).filename = <<"a">>
           /\ ChildAt(graph, o2).filename = <<"lib", "a">>

\* The places where a Graph's mappings hold a value: <<k, i>> is the i-th
\* own property of the mapping of the Asset at position k.
Edges(g) == UNION {{<<k, i>> : i \in DOMAIN g[k].mapping} : k \in DOMAIN g}

\* C17: in a returned Graph every mapping value is the id of an Asset of
\* the Graph and greater than the id of the Asset holding it, and no id is
\* held at two places (two Assets, or two keys of one Asset): the mappings
\* form a tree under id 0, which no mapping holds.
C17_MappingsFormTree ==
    Returned =>
        /\ \A e \in Edges(graph) :
               LET v == graph[e[1]].mapping[e[2]].v IN
               /\ v > graph[e[1]].id
               /\ v # 0
               /\ v \in Ids(graph)
        /\ \A e1, e2 \in Edges(graph) :
               graph[e1[1]].mapping[e1[2]].v = graph[e2[1]].mapping[e2[2]].v
                   => e1 = e2

C17_Witness ==
    /\ Returned
    /\ Len(graph) >= 5
    /\ Len(graph[1].mapping) = 2
    /\ \E k \in DOMAIN graph : k > 1 /\ graph[k].mapping # <<>>

\* C18: a returned Graph has one Asset for the entry and one for every
\* entry of every dependencies list, repetitions counted, and every
\* dependencies list is the file's import declarations as written,
\* repetitions kept; the Asset built for each occurrence is an Asset of its
\* own.
C18_OneAssetPerOccurrence ==
    Returned =>
        /\ Len(graph) =
               1 + SumSeq([k \in DOMAIN graph |-> Len(graph[k].dependencies)])
        /\ \A k \in DOMAIN graph :
               graph[k].dependencies = Loaded(graph[k].filename).imports
        /\ \A o1, o2 \in Occurrences(graph) :
               o1 # o2 => ChildAt(graph, o1).id # ChildAt(graph, o2).id

C18_Witness ==
    /\ Returned
    /\ graph[1].dependencies = <<sA, sA>>
    /\ Len(graph) >= 3
    /\ graph[2].filename = graph[3].filename

\* The occurrences of a Graph whose specifier the same Asset lists again
\* further on, each with the last occurrence of that specifier.
Repeated(g) ==
    { p \in Occurrences(g) \X Occurrences(g) :
        /\ p[1][1] = p[2][1]
        /\ p[1][2] < p[2][2]
        /\ SpecifierAt(g, p[1]) = SpecifierAt(g, p[2])
        /\ \A i \in DOMAIN g[p[1][1]].dependencies :
               i > p[2][2] => g[p[1][1]].dependencies[i] # SpecifierAt(g, p[2]) }

\* For every specifier but the ones in except: when an Asset lists it more
\* than once, the mapping holds for it the id of the Asset built for the
\* last occurrence; the Assets built for the earlier occurrences are in the
\* Graph and in the registry, no mapping holds their id, and no run of the
\* bundle starts their body.
LastOccurrenceWins(except) ==
    Returned =>
        \A p \in Repeated(graph) :
            LET x == SpecifierAt(graph, p[1])
                early == ChildAt(graph, p[1])
                last == ChildAt(graph, p[2])
            IN  x \notin except =>
                /\ x \in ownKeys(graph[p[1][1]].mapping)
                /\ getProperty(graph[p[1][1]].mapping, x) = Num(last.id)
                /\ early.id \in Ids(graph)
                /\ \A e \in Edges(graph) :
                       graph[e[1]].mapping[e[2]].v # early.id
                /\ rt.status # "off" =>
                       /\ early.id \in DOMAIN rt.modules
                       /\ rt.execs[early.id] = 0

\* C19: when an Asset lists the same specifier more than once, its mapping
\* holds for that specifier the id of the Asset built for the last
\* occurrence; the Assets built for the earlier occurrences stay in the
\* Graph and in the registry, are held by no mapping, and are never
\* executed by the runtime.
C19_LastOccurrenceWins == LastOccurrenceWins({})

\* Every require call of every module body of the Graph names a specifier
\* that is an own key of that module's mapping.
AllCallsMapped ==
    \A k \in DOMAIN graph : \A c \in DOMAIN graph[k].code.calls :
        graph[k].code.calls[c] \in ownKeys(graph[k].mapping)

\* The module ids of the require calls in progress, outermost first.
StackIds == [i \in DOMAIN rt.stack |-> rt.stack[i].id]

\* C20: while the emitted bundle runs, the require calls in progress are
\* never more than the Graph has Assets and no module id is in progress
\* twice; every run of a printed bundle ends, and ends with require(0)
\* returning when every body's require calls name own keys of its mapping.
C20_ExecutionTerminates ==
    /\ [](rt.status # "off" =>
             /\ Len(rt.stack) <= Len(graph)
             /\ \A i, j \in DOMAIN rt.stack :
                    StackIds[i] = StackIds[j] => i = j)
    /\ (pc = "printed") ~>
           (/\ rt.status \in {"done", "error"}
            /\ AllCallsMapped => rt.status = "done")

C20_Witness ==
    /\ rt.status = "done"
    /\ AllCallsMapped
    /\ Len(graph) >= 6
    /\ TotalExecs >= 6

====
